---- MODULE Spec2Model ----
(***************************************************************************)
(* Model of the session / token lifecycle and request dispatch layer of    *)
(* the TrailBase python client (client/python/trailbase/__init__.py).      *)
(*                                                                         *)
(* A call of the client (login, logout, fetch, stream) is a sequence of    *)
(* steps separated by the network round trips it performs: the entry of    *)
(* Client.fetch / Client.stream, the answer to the refresh request and the *)
(* answer to the actual request.  The server, the network and the clock    *)
(* are the environment: every answer they can give is an input.            *)
(*                                                                         *)
(* Spec is the session layer with one thread.  SpecRace runs two threads   *)
(* on one client, SpecSub adds the life of a stream handle and of a        *)
(* subscription generator, SpecRecord the record mutation calls and the    *)
(* transaction batch, SpecList the query parameters of RecordApi.list.     *)
(***************************************************************************)
EXTENDS Integers, Sequences, FiniteSets, TLC

\* ------------------------------------------------------------------ bounds
MaxTime == 2

\* --------------------------------------------------------------- constants
RefreshMargin == 60

Threads == {1, 2}
SeqThreads == {1}

\* ---------------------------------------------------------------- optionals
None == <<>>
Some(x) == <<x>>

\* ------------------------------------------------- outcomes of a python call
Ok(v) == [raised |-> FALSE, error |-> "", value |-> v]
Raise(e) == [raised |-> TRUE, error |-> e, value |-> None]

\* ------------------------------------------------------------ input domains
Emails == {"admin@localhost"}
Passwords == {"secret"}
Exps == {RefreshMargin + k : k \in 0..MaxTime}
RefreshTokens == {"r1", "r2"}
CsrfTokens == {"c1"}

SubOf(email) == IF email = "admin@localhost" THEN "id-admin" ELSE "id-user"

\* A signed token: the number of dot separated segments and the JSON object
\* of its payload segment.
Jwt(email, exp) ==
    [segments |-> 3,
     payload |-> [sub |-> SubOf(email), iat |-> 0, exp |-> exp,
                  email |-> email, csrf_token |-> "c1"]]
GarbageJwt == [segments |-> 1, payload |-> [k \in {} |-> 0]]
NoExpJwt ==
    [segments |-> 3,
     payload |-> [sub |-> "id-user", iat |-> 0, email |-> "user@localhost",
                  csrf_token |-> "c1"]]

GoodJwts == {Jwt("admin@localhost", x) : x \in Exps}
            \cup {Jwt("user@localhost", RefreshMargin + MaxTime)}
BadJwts == {GarbageJwt, NoExpJwt}
AuthTokens == GoodJwts \cup BadJwts

OptRefresh == {None} \cup {Some(r) : r \in RefreshTokens}
OptCsrf == {None} \cup {Some(c) : c \in CsrfTokens}

\* ------------------------------------------------------------------- Tokens
Tokens(auth, refresh, csrf) == [auth |-> auth, refresh |-> refresh, csrf |-> csrf]

\* The token triples the login endpoint hands out in this model.
LoginTokens ==
    {Tokens(a, Some("r1"), Some("c1")) : a \in AuthTokens}
    \cup {Tokens(Jwt("admin@localhost", RefreshMargin), None, Some("c1")),
          Tokens(Jwt("user@localhost", RefreshMargin + MaxTime), Some("r2"), None)}

\* jwt.decode(token, options={"verify_signature": False}): the payload of a
\* three segment token, DecodeError otherwise.  It never returns None.
jwt_decode(token) ==
    IF token.segments = 3 THEN Ok(Some(token.payload)) ELSE Raise("DecodeError")

JwtToken_from_json(json) ==
    IF {"sub", "iat", "exp", "email", "csrf_token"} \subseteq DOMAIN json
    THEN Ok([sub |-> json.sub, iat |-> json.iat, exp |-> json.exp,
             email |-> json.email, csrfToken |-> json.csrf_token])
    ELSE Raise("KeyError")

User_from_json(json) ==
    IF {"sub", "email"} \subseteq DOMAIN json
    THEN Ok([id |-> json.sub, email |-> json.email])
    ELSE Raise("KeyError")

\* --------------------------------------------------------------- TokenState
TokenState(state, headers) == [state |-> state, headers |-> headers]

\* Variant: the anti-forgery header is left out.
build_headers_no_csrf(tokens) ==
    LET base == ("Content-Type" :> "application/json")
        auth == IF tokens # None
                THEN ("Authorization" :> <<"Bearer", tokens[1].auth>>)
                ELSE <<>>
        refresh == IF tokens # None /\ tokens[1].refresh # None
                   THEN ("Refresh-Token" :> tokens[1].refresh[1])
                   ELSE <<>>
    IN  base @@ auth @@ refresh

build_headers(tokens) ==
    LET base == ("Content-Type" :> "application/json")
        auth == IF tokens # None
                THEN ("Authorization" :> <<"Bearer", tokens[1].auth>>)
                ELSE <<>>
        refresh == IF tokens # None /\ tokens[1].refresh # None
                   THEN ("Refresh-Token" :> tokens[1].refresh[1])
                   ELSE <<>>
        csrf == IF tokens # None /\ tokens[1].csrf # None
                THEN ("CSRF-Token" :> tokens[1].csrf[1])
                ELSE <<>>
    IN  base @@ auth @@ refresh @@ csrf

build(tokens) ==
    LET decoded == IF tokens # None THEN jwt_decode(tokens[1].auth) ELSE Ok(None)
    IN  IF decoded.raised THEN decoded
        ELSE IF decoded.value = None \/ tokens = None
        THEN Ok(TokenState(None, build_headers(tokens)))
        ELSE LET claims == JwtToken_from_json(decoded.value[1])
             IN  IF claims.raised THEN claims
                 ELSE Ok(TokenState(Some([tokens |-> tokens[1], claims |-> claims.value]),
                                    build_headers(tokens)))


\* ---------------------------------------------------------------- Client
tokens(g) == IF g.state # None THEN Some(g.state[1].tokens) ELSE None

user(g) ==
    LET t == tokens(g)
    IN  IF t # None
        THEN LET d == jwt_decode(t[1].auth)
             IN  IF d.raised THEN d
                 ELSE LET u == User_from_json(d.value[1])
                      IN  IF u.raised THEN u ELSE Ok(Some(u.value))
        ELSE Ok(None)

\* Variant: the margin comparison is inclusive.
shouldRefresh_inclusive(tokenState, t) ==
    LET state == tokenState.state
    IN  IF state # None /\ state[1].claims.exp - RefreshMargin <= t
        THEN state[1].tokens.refresh
        ELSE None

\* Client._shouldRefresh(tokenState) with time() = t.
shouldRefresh(tokenState, t) ==
    LET state == tokenState.state
    IN  IF state # None /\ state[1].claims.exp - RefreshMargin < t
        THEN state[1].tokens.refresh
        ELSE None

\* Variant: the state is cleared before the new tokens are decoded.
updateTokens_clear_first(g, tks) ==
    LET state == build(tks)
    IN  IF state.raised
        THEN [state |-> build(None).value, out |-> state]
        ELSE [state |-> state.value, out |-> Ok(state.value.state)]

\* Client._updateTokens(tokens) on a client whose _tokenState is g: the new
\* _tokenState and the outcome of the call.
updateTokens(g, tks) ==
    LET state == build(tks)
    IN  IF state.raised
        THEN [state |-> g, out |-> state]
        ELSE [state |-> state.value, out |-> Ok(state.value.state)]

\* ------------------------------------------------------------- the network
Site == <<"http://localhost:4000">>
authApi == <<"api", "/", "auth", "/", "v1">>
recordApi == <<"api", "/", "records", "/", "v1">>

Statuses == {200, 401}

TextBody == [json |-> FALSE, obj |-> [k \in {} |-> None]]
EmptyBody == [json |-> TRUE, obj |-> [k \in {} |-> None]]
TokenBody(a, r, c) ==
    [json |-> TRUE,
     obj |-> [auth_token |-> a, refresh_token |-> r, csrf_token |-> c]]
PartialBody(a, c) == [json |-> TRUE, obj |-> [auth_token |-> a, csrf_token |-> c]]

LoginBodies ==
    {TextBody, EmptyBody}
    \cup {TokenBody(k.auth, k.refresh, k.csrf) : k \in LoginTokens}

RefreshBodies ==
    {TextBody}
    \cup {PartialBody(a, Some("c1")) : a \in AuthTokens}
    \cup {PartialBody(Jwt("admin@localhost", RefreshMargin + MaxTime), None),
          TokenBody(Jwt("admin@localhost", RefreshMargin + MaxTime), Some("r2"), Some("c1"))}

PlainBodies == {TextBody, EmptyBody}

Response(status, body) == [status_code |-> status, body |-> body]

\* What a round trip can produce: a response, or a network level failure.
Answers(bodies) ==
    {Raise("TransportError")}
    \cup {Ok(Response(s, b)) : s \in Statuses, b \in bodies}

response_json(response) ==
    IF response.body.json THEN Ok(response.body.obj) ELSE Raise("JSONDecodeError")

\* Variant: no path counts as rooted.
startswith_never(path, c) == FALSE

startswith(path, c) == Len(path) > 0 /\ path[1] = c

Url(path) == Site \o <<"/">> \o path

\* The request ThinClient.fetch hands to httpx.
FetchRequest(path, tokenState, method, data, queryParams) ==
    [method |-> method, url |-> Url(path), json |-> data,
     headers |-> tokenState.headers, params |-> queryParams, stream |-> FALSE]

\* The request ThinClient.stream hands to httpx.
StreamRequest(path, tokenState, method, queryParams) ==
    LET headers == ("Accept" :> "text/event-stream")
                   @@ ("Cache-Control" :> "no-store")
                   @@ tokenState.headers
    IN  [method |-> method, url |-> Url(path), json |-> None,
         headers |-> headers, params |-> queryParams, stream |-> TRUE]

\* Client._refreshTokensImpl, request half: sent with the headers of the
\* client's current _tokenState g.
RefreshRequest(g, refreshToken) ==
    FetchRequest(authApi \o <<"/", "refresh">>, g, "POST",
                 Some([refresh_token |-> refreshToken[1]]), None)

\* Variant: the refresh token of the response replaces the one held.
refreshTokensImpl_rotating(refreshToken, answer) ==
    IF answer.raised THEN answer
    ELSE LET json == response_json(answer.value)
         IN  IF json.raised THEN json
             ELSE IF ~ ({"auth_token", "csrf_token"} \subseteq DOMAIN json.value)
             THEN Raise("KeyError")
             ELSE build(Some(Tokens(json.value.auth_token,
                                    IF "refresh_token" \in DOMAIN json.value
                                    THEN json.value.refresh_token
                                    ELSE refreshToken,
                                    json.value.csrf_token)))

\* Client._refreshTokensImpl, response half.
refreshTokensImpl(refreshToken, answer) ==
    IF answer.raised THEN answer
    ELSE LET json == response_json(answer.value)
         IN  IF json.raised THEN json
             ELSE IF ~ ({"auth_token", "csrf_token"} \subseteq DOMAIN json.value)
             THEN Raise("KeyError")
             ELSE build(Some(Tokens(json.value.auth_token, refreshToken,
                                    json.value.csrf_token)))


\* Variant: the refresh and csrf tokens of the response are swapped.
login_swapped(g, fetched) ==
    IF fetched.raised THEN [state |-> g, res |-> fetched]
    ELSE LET json == response_json(fetched.value)
         IN  IF json.raised THEN [state |-> g, res |-> json]
             ELSE IF ~ ({"auth_token", "refresh_token", "csrf_token"}
                           \subseteq DOMAIN json.value)
             THEN [state |-> g, res |-> Raise("KeyError")]
             ELSE LET tks == Tokens(json.value.auth_token,
                                    json.value.csrf_token,
                                    json.value.refresh_token)
                      u == updateTokens(g, Some(tks))
                  IN  [state |-> u.state,
                       res |-> IF u.out.raised THEN u.out ELSE Ok(Some(tks))]

\* Variant: a failed login leaves the client anonymous.
login_clear_on_failure(g, fetched) ==
    IF fetched.raised THEN [state |-> build(None).value, res |-> fetched]
    ELSE LET json == response_json(fetched.value)
         IN  IF json.raised THEN [state |-> build(None).value, res |-> json]
             ELSE IF ~ ({"auth_token", "refresh_token", "csrf_token"}
                           \subseteq DOMAIN json.value)
             THEN [state |-> build(None).value, res |-> Raise("KeyError")]
             ELSE LET tks == Tokens(json.value.auth_token,
                                    json.value.refresh_token,
                                    json.value.csrf_token)
                      u == updateTokens(g, Some(tks))
                  IN  [state |-> u.state,
                       res |-> IF u.out.raised THEN u.out ELSE Ok(Some(tks))]

\* Client.login after self.fetch has returned or raised (fetched), on a
\* client whose _tokenState is g: the new _tokenState and the outcome.
login(g, fetched) ==
    IF fetched.raised THEN [state |-> g, res |-> fetched]
    ELSE LET json == response_json(fetched.value)
         IN  IF json.raised THEN [state |-> g, res |-> json]
             ELSE IF ~ ({"auth_token", "refresh_token", "csrf_token"}
                           \subseteq DOMAIN json.value)
             THEN [state |-> g, res |-> Raise("KeyError")]
             ELSE LET tks == Tokens(json.value.auth_token,
                                    json.value.refresh_token,
                                    json.value.csrf_token)
                      u == updateTokens(g, Some(tks))
                  IN  [state |-> u.state,
                       res |-> IF u.out.raised THEN u.out ELSE Ok(Some(tks))]

\* Variant: _updateTokens(None) sits inside the try block, after the request.
logout_inside_try(g, fetched) ==
    IF fetched.raised THEN [state |-> g, res |-> Ok(None)]
    ELSE LET u == updateTokens(g, None)
         IN  [state |-> u.state, res |-> IF u.out.raised THEN u.out ELSE Ok(None)]

\* Variant: the failure of self.fetch is not swallowed.
logout_reraise(g, fetched) ==
    IF fetched.raised THEN [state |-> g, res |-> fetched]
    ELSE LET u == updateTokens(g, None)
         IN  [state |-> u.state, res |-> IF u.out.raised THEN u.out ELSE Ok(None)]

\* Client.logout after self.fetch has returned or raised: the bare except
\* swallows every failure, then _updateTokens(None).
logout(g, fetched) ==
    LET u == updateTokens(g, None)
    IN  [state |-> u.state, res |-> IF u.out.raised THEN u.out ELSE Ok(None)]

\* Variant: logout never sends the refresh token.
LogoutCall_bare(g) ==
    [path |-> authApi \o <<"/", "logout">>, method |-> "GET",
     data |-> None, queryParams |-> None, stream |-> FALSE]

\* The arguments Client.logout passes to self.fetch, from the state it reads.
LogoutCall(g) ==
    LET state == g.state
        refreshToken == IF state # None THEN state[1].tokens.refresh ELSE None
    IN  IF refreshToken # None
        THEN [path |-> authApi \o <<"/", "logout">>, method |-> "POST",
              data |-> Some([refresh_token |-> refreshToken[1]]),
              queryParams |-> None, stream |-> FALSE]
        ELSE [path |-> authApi \o <<"/", "logout">>, method |-> "GET",
              data |-> None, queryParams |-> None, stream |-> FALSE]

LoginCall(email, password) ==
    [path |-> authApi \o <<"/", "login">>, method |-> "POST",
     data |-> Some([email |-> email, password |-> password]),
     queryParams |-> None, stream |-> FALSE]

Paths == {recordApi \o <<"/", "t">>, <<"/">> \o recordApi \o <<"/", "t">>}

\* ------------------------------------------------------------------ records
MaxOps == 2
MaxFilters == 2

ApiNames == {"A", "B"}
Values == {[name |-> "n"]}

\* RecordApi._name of the api object the record calls are made on.
RecordApiName == "A"

\* The decimal text of a small natural number, as str() and f"{...}" give it.
str(n) == <<"0", "1", "2", "3", "4", "5", "6", "7", "8", "9">>[n + 1]

\* A record id argument: a RecordId object, a str or an int.
RecordId(id) == [type |-> "RecordId", id |-> id]
StrId(s) == [type |-> "str", id |-> s]
IntId(n) == [type |-> "int", n |-> n]
RecordIdArgs == {IntId(7)}

\* id = repr(recordId) if isinstance(recordId, RecordId) else f"{recordId}"
IdOf(recordId) ==
    IF recordId.type = "int" THEN str(recordId.n) ELSE recordId.id

IdsBody(ids) == [json |-> TRUE, obj |-> [ids |-> ids]]
ListBody(records) == [json |-> TRUE, obj |-> [records |-> records]]

MutationStatuses == {200, 201, 404}
MutationBodies == {TextBody, IdsBody(<<>>), IdsBody(<<"id2", "id1">>)}
ListBodies == {TextBody, EmptyBody, ListBody(<<[name |-> "n"]>>)}

\* What the round trip of a record mutation or of a transaction can produce.
MutationAnswers ==
    {Raise("TransportError")}
    \cup {Ok(Response(s, b)) : s \in MutationStatuses, b \in MutationBodies}

record_ids_from_json(json) ==
    IF "ids" \notin DOMAIN json THEN Raise("KeyError")
    ELSE Ok([i \in 1..Len(json.ids) |-> RecordId(json.ids[i])])

ListResponse_from_json(json) ==
    IF "records" \notin DOMAIN json THEN Raise("KeyError")
    ELSE Ok([cursor |-> IF "cursor" \in DOMAIN json THEN Some(json.cursor) ELSE None,
             total_count |-> IF "total_count" \in DOMAIN json
                             THEN Some(json.total_count) ELSE None,
             records |-> json.records])

\* ApiBatch.create / update / delete: the operation handed to add_operation.
ApiBatch_create(api_name, value) ==
    [Create |-> [api_name |-> api_name, value |-> value]]

ApiBatch_update(api_name, recordId, value) ==
    [Update |-> [api_name |-> api_name, record_id |-> IdOf(recordId), value |-> value]]

ApiBatch_delete(api_name, recordId) ==
    [Delete |-> [api_name |-> api_name, record_id |-> IdOf(recordId)]]

\* Variant: the new operation goes to the front of the list.
add_operation_prepend(operations, operation) == <<operation>> \o operations

\* TransactionBatch.add_operation on a batch whose _operations is operations.
add_operation(operations, operation) == Append(operations, operation)

transactionApi == <<"api", "/", "transaction", "/", "v1", "/", "execute">>

\* The arguments TransactionBatch.send passes to Client.fetch.
SendCall(operations) ==
    [path |-> transactionApi, method |-> "POST",
     data |-> Some([operations |-> operations]),
     queryParams |-> None, stream |-> FALSE]

\* TransactionBatch.send after Client.fetch has returned or raised.
TransactionBatch_send(fetched) ==
    IF fetched.raised THEN fetched
    ELSE IF fetched.value.status_code # 200 THEN Raise("Exception")
    ELSE LET json == response_json(fetched.value)
         IN  IF json.raised THEN json ELSE record_ids_from_json(json.value)

\* RecordApi.create after Client.fetch has returned or raised.
RecordApi_create(fetched) ==
    IF fetched.raised THEN fetched
    ELSE IF fetched.value.status_code > 200 THEN Raise("Exception")
    ELSE LET json == response_json(fetched.value)
         IN  IF json.raised THEN json
             ELSE LET ids == record_ids_from_json(json.value)
                  IN  IF ids.raised THEN ids
                      ELSE IF Len(ids.value) = 0 THEN Raise("IndexError")
                      ELSE Ok(ids.value[1])

\* RecordApi.create_bulk after Client.fetch has returned or raised.
RecordApi_create_bulk(fetched) ==
    IF fetched.raised THEN fetched
    ELSE IF fetched.value.status_code > 200 THEN Raise("Exception")
    ELSE LET json == response_json(fetched.value)
         IN  IF json.raised THEN json ELSE record_ids_from_json(json.value)

\* RecordApi.update after Client.fetch has returned or raised.
RecordApi_update(fetched) ==
    IF fetched.raised THEN fetched
    ELSE IF fetched.value.status_code > 200 THEN Raise("Exception")
    ELSE Ok(None)

\* RecordApi.delete after Client.fetch has returned or raised.
RecordApi_delete(fetched) ==
    IF fetched.raised THEN fetched
    ELSE IF fetched.value.status_code > 200 THEN Raise("Exception")
    ELSE Ok(None)

\* RecordApi.list after Client.fetch has returned or raised.
RecordApi_list(fetched) ==
    IF fetched.raised THEN fetched
    ELSE LET json == response_json(fetched.value)
         IN  IF json.raised THEN json ELSE ListResponse_from_json(json.value)

\* ------------------------------------------------------------------ filters
CompareOps == {"EQUAL", "NOT_EQUAL", "LESS_THAN", "LESS_THAN_EQUAL",
               "GREATER_THAN", "GREATER_THAN_EQUAL", "LIKE", "REGEXP"}

\* CompareOp.__repr__
repr(op) ==
    CASE op = "EQUAL" -> "$eq"
      [] op = "NOT_EQUAL" -> "$ne"
      [] op = "LESS_THAN" -> "$lt"
      [] op = "LESS_THAN_EQUAL" -> "$lte"
      [] op = "GREATER_THAN" -> "$gt"
      [] op = "GREATER_THAN_EQUAL" -> "$gte"
      [] op = "LIKE" -> "$like"
      [] op = "REGEXP" -> "$re"

Filter(column, value, op) ==
    [kind |-> "Filter", column |-> column, value |-> value, op |-> op]
And(filters) == [kind |-> "And", filters |-> filters]
Or(filters) == [kind |-> "Or", filters |-> filters]

\* params[key] = value on a python dict, kept as the sequence of its items in
\* insertion order.
dict_set(params, key, value) ==
    IF \E i \in 1..Len(params) : params[i][1] = key
    THEN [i \in 1..Len(params) |->
             IF params[i][1] = key THEN <<key, value>> ELSE params[i]]
    ELSE Append(params, <<key, value>>)

\* ",".join(items)
join(items) ==
    LET RECURSIVE J(_)
        J(i) == IF i > Len(items) THEN <<>>
                ELSE (IF i > 1 THEN <<",">> ELSE <<>>) \o <<items[i]>> \o J(i + 1)
    IN  J(1)

\* traverseFilters of RecordApi.list: the dict after the filter was written
\* into it.  A text is the sequence of its pieces; the pieces "[" and "]"
\* are the brackets of the key.
RECURSIVE traverseFilters(_, _, _)
RECURSIVE traverseEach(_, _, _, _, _)
traverseFilters(path, filter, params) ==
    CASE filter.kind = "Filter" ->
            IF filter.op # None
            THEN dict_set(params,
                          path \o <<"[", filter.column, "]", "[", repr(filter.op[1]), "]">>,
                          filter.value)
            ELSE dict_set(params, path \o <<"[", filter.column, "]">>, filter.value)
      [] filter.kind = "And" -> traverseEach(path, "$and", filter.filters, 0, params)
      [] filter.kind = "Or" -> traverseEach(path, "$or", filter.filters, 0, params)

\* for i, filter in enumerate(f.filters): traverseFilters(f"{path}[$and][{i}", filter)
traverseEach(path, tag, filters, i, params) ==
    IF i >= Len(filters) THEN params
    ELSE traverseEach(path, tag, filters, i + 1,
                      traverseFilters(path \o <<"[", tag, "]", "[", str(i)>>,
                                      filters[i + 1], params))

\* The arguments of RecordApi.list.
ListArgs(order, filters, cursor, expand, limit, offset, count) ==
    [order |-> order, filters |-> filters, cursor |-> cursor, expand |-> expand,
     limit |-> limit, offset |-> offset, count |-> count]

\* RecordApi.list up to its call of Client.fetch: the query parameters.
ListParams(a) ==
    LET p1 == IF a.cursor # None THEN dict_set(<<>>, <<"cursor">>, a.cursor[1]) ELSE <<>>
        p2 == IF a.limit # None THEN dict_set(p1, <<"limit">>, <<str(a.limit[1])>>) ELSE p1
        p3 == IF a.offset # None THEN dict_set(p2, <<"offset">>, <<str(a.offset[1])>>) ELSE p2
        p4 == IF a.order # None THEN dict_set(p3, <<"order">>, join(a.order[1])) ELSE p3
        p5 == IF a.expand # None THEN dict_set(p4, <<"expand">>, join(a.expand[1])) ELSE p4
        p6 == IF a.count THEN dict_set(p5, <<"count">>, <<"true">>) ELSE p5
        RECURSIVE F(_, _)
        F(i, p) == IF i > Len(a.filters[1]) THEN p
                   ELSE F(i + 1, traverseFilters(<<"filter">>, a.filters[1][i], p))
    IN  IF a.filters # None THEN F(1, p6) ELSE p6

ListCall(a) ==
    [path |-> recordApi \o <<"/", RecordApiName>>, method |-> "GET", data |-> None,
     queryParams |-> Some(ListParams(a)), stream |-> FALSE]

\* The filters the list calls of this model are made with.
FilterTrees ==
    LET a == Filter("a", <<"1">>, Some("EQUAL"))
        b == Filter("b", <<"2">>, Some("LIKE"))
        c == Filter("c", <<"3">>, None)
    IN  {a, b, c,
         Filter("a", <<"4">>, Some("EQUAL")),
         And(<<a, b>>), Or(<<a, c>>), And(<<>>),
         And(<<Or(<<a, b>>), c>>),
         Or(<<And(<<a, Or(<<b, c>>)>>)>>)}

FilterLists ==
    UNION {[1..n -> FilterTrees] : n \in 0..MaxFilters}

ListInputs ==
    {ListArgs(None, Some(f), None, None, None, None, FALSE) : f \in FilterLists}
    \cup {ListArgs(None, None, None, None, None, None, FALSE),
          ListArgs(Some(<<"+a", "-b">>), Some(<<Filter("a", <<"1">>, Some("EQUAL"))>>),
                   Some(<<"cur">>), Some(<<"x", "y">>), Some(3), Some(1), TRUE)}

\* The answers the round trip of the actual request of a call can get.
AnswersFor(o) ==
    CASE o = "login" -> Answers(LoginBodies)
      [] o \in {"create", "create_bulk", "update", "delete", "send"} -> MutationAnswers
      [] o = "list" -> Answers(ListBodies)
      [] OTHER -> Answers(PlainBodies)

\* -------------------------------------------------------------------- state
VARIABLES
    tokenState,  \* Client._tokenState
    now,         \* int(time())
    pc,          \* per thread: "idle", "decided", "refresh" or "request"
    op,          \* per thread: the call in progress, or the last one
    call,        \* per thread: path, method, data of that call
    ts,          \* per thread: the local tokenState of Client.fetch / stream
    rt,          \* per thread: the local refreshToken of Client.fetch / stream
    tnow,        \* per thread: the local now of _shouldRefresh
    reqs,        \* per thread: the requests the call has handed to httpx
    rans,        \* per thread: the answer to the call's refresh request
    ans,         \* per thread: the answer to the call's actual request
    res,         \* per thread: the outcome of the last completed call
    read,        \* per thread: Client._tokenState when the call began
    hist,        \* per thread: the last two completed calls, newest first
                 \* (what a logout or a send did; any other call is "other")
    response,    \* the response the handle of ThinClient.stream closes over
    conn,        \* its connection: "none", "open" or "closed"
    cm,          \* the context manager ThinClient.stream returned: "none",
                 \* "created", "entered", "exited" or "dropped"
    gen,         \* the generator RecordApi.subscribe returned: "none",
                 \* "created", "suspended", "exhausted", "raised" or "closed"
    operations,  \* TransactionBatch._operations
    added,       \* the calls made on the batch so far, in order
    args         \* the arguments of the last RecordApi.list call

streamVars == <<response, conn, cm, gen>>
batchVars == <<operations, added>>
recordVars == <<streamVars, batchVars, args>>

vars == <<tokenState, now, pc, op, call, ts, rt, tnow, reqs, rans, ans, res, read, hist,
          recordVars>>

NoCall == [path |-> <<>>, method |-> "GET", data |-> None, queryParams |-> None,
           stream |-> FALSE]

InitStates ==
    {build(tk).value : tk \in {x \in {None} \cup {Some(k) : k \in LoginTokens} :
                                  ~ build(x).raised}}

\* No call has been made, no stream opened, the batch is empty.
InitCalls ==
    /\ pc = [t \in Threads |-> "idle"]
    /\ op = [t \in Threads |-> "none"]
    /\ call = [t \in Threads |-> NoCall]
    /\ ts = [t \in Threads |-> tokenState]
    /\ rt = [t \in Threads |-> None]
    /\ tnow = [t \in Threads |-> 0]
    /\ reqs = [t \in Threads |-> <<>>]
    /\ rans = [t \in Threads |-> None]
    /\ ans = [t \in Threads |-> None]
    /\ res = [t \in Threads |-> Ok(None)]
    /\ read = [t \in Threads |-> tokenState]
    /\ hist = [t \in Threads |-> <<>>]
    /\ response = None
    /\ conn = "none"
    /\ cm = "none"
    /\ gen = "none"
    /\ operations = <<>>
    /\ added = <<>>
    /\ args = None

Init ==
    /\ tokenState \in InitStates
    /\ now = 0
    /\ InitCalls

\* The call of thread t returns to its caller: Client.fetch / Client.stream
\* has produced fetched, the client's _tokenState is g.
Return(t, o, g, fetched, sent) ==
    LET a == CASE o = "login" -> login(g, fetched)
               [] o = "logout" -> logout(g, fetched)
               [] o = "create" -> [state |-> g, res |-> RecordApi_create(fetched)]
               [] o = "create_bulk" -> [state |-> g, res |-> RecordApi_create_bulk(fetched)]
               [] o = "update" -> [state |-> g, res |-> RecordApi_update(fetched)]
               [] o = "delete" -> [state |-> g, res |-> RecordApi_delete(fetched)]
               [] o = "list" -> [state |-> g, res |-> RecordApi_list(fetched)]
               [] o = "send" -> [state |-> g, res |-> TransactionBatch_send(fetched)]
               [] OTHER -> [state |-> g, res |-> fetched]
        h == CASE o = "logout" ->
                    [op |-> o, raised |-> a.res.raised, anonymous |-> tokens(a.state) = None]
               [] o = "send" -> [op |-> o, raised |-> a.res.raised, anonymous |-> FALSE]
               [] OTHER -> [op |-> "other", raised |-> FALSE, anonymous |-> FALSE]
    IN  /\ tokenState' = a.state
        /\ res' = [res EXCEPT ![t] = a.res]
        /\ pc' = [pc EXCEPT ![t] = "idle"]
        /\ reqs' = [reqs EXCEPT ![t] = sent]
        /\ hist' = [hist EXCEPT ![t] = <<h>> \o SubSeq(hist[t], 1, IF Len(hist[t]) > 0 THEN 1 ELSE 0)]

\* Variant: ThinClient.stream writes its two headers into the headers map of
\* the state it was given instead of a copy.
Transport_shared_headers(t, o, c, tokL, g, sent) ==
    LET headers == ("Accept" :> "text/event-stream")
                   @@ ("Cache-Control" :> "no-store")
                   @@ tokL.headers
        tokX == IF c.stream THEN TokenState(tokL.state, headers) ELSE tokL
        gX == IF c.stream /\ g = tokL THEN tokX ELSE g
    IN  IF startswith(c.path, "/")
        THEN /\ ts' = [ts EXCEPT ![t] = tokL]
             /\ Return(t, o, g, Raise("AssertionError"), sent)
        ELSE /\ ts' = [ts EXCEPT ![t] = tokX]
             /\ reqs' = [reqs EXCEPT ![t] =
                           Append(sent, IF c.stream
                                        THEN StreamRequest(c.path, tokX, c.method,
                                                           c.queryParams)
                                        ELSE FetchRequest(c.path, tokX, c.method, c.data,
                                                          c.queryParams))]
             /\ pc' = [pc EXCEPT ![t] = "request"]
             /\ tokenState' = gX
             /\ UNCHANGED <<res, hist>>

\* ThinClient.fetch / ThinClient.stream called with the local tokenState
\* tokL, up to the hand-over of the request to httpx.
Transport(t, o, c, tokL, g, sent) ==
    /\ ts' = [ts EXCEPT ![t] = tokL]
    /\ IF startswith(c.path, "/")
       THEN Return(t, o, g, Raise("AssertionError"), sent)
       ELSE /\ reqs' = [reqs EXCEPT ![t] =
                          Append(sent, IF c.stream
                                       THEN StreamRequest(c.path, tokL, c.method,
                                                          c.queryParams)
                                       ELSE FetchRequest(c.path, tokL, c.method, c.data,
                                                         c.queryParams))]
            /\ pc' = [pc EXCEPT ![t] = "request"]
            /\ tokenState' = g
            /\ UNCHANGED <<res, hist>>

\* Client.fetch / Client.stream from its first line to the decision to
\* refresh (lines 501-503), and on to the request when there is no refresh.
Enter(t, o, c) ==
    LET tokenStateL == tokenState
        refreshToken == shouldRefresh(tokenStateL, now)
    IN  /\ pc[t] = "idle"
        /\ op' = [op EXCEPT ![t] = o]
        /\ call' = [call EXCEPT ![t] = c]
        /\ read' = [read EXCEPT ![t] = tokenStateL]
        /\ tnow' = [tnow EXCEPT ![t] = now]
        /\ rt' = [rt EXCEPT ![t] = refreshToken]
        /\ rans' = [rans EXCEPT ![t] = None]
        /\ ans' = [ans EXCEPT ![t] = None]
        /\ UNCHANGED now
        /\ IF refreshToken # None
           THEN /\ reqs' = [reqs EXCEPT ![t] = <<>>]
                /\ pc' = [pc EXCEPT ![t] = "decided"]
                /\ ts' = [ts EXCEPT ![t] = tokenStateL]
                /\ UNCHANGED <<tokenState, res, hist>>
           ELSE Transport(t, o, c, tokenStateL, tokenState, <<>>)

\* Client._refreshTokensImpl up to its round trip: the refresh request goes
\* out with the headers of the client's _tokenState as it is now.
SendRefresh(t) ==
    /\ pc[t] = "decided"
    /\ reqs' = [reqs EXCEPT ![t] = <<RefreshRequest(tokenState, rt[t])>>]
    /\ pc' = [pc EXCEPT ![t] = "refresh"]
    /\ UNCHANGED <<tokenState, now, op, call, ts, rt, tnow, rans, ans, res, read, hist>>
    /\ UNCHANGED recordVars

Login(t) ==
    /\ \E email \in Emails, password \in Passwords :
          Enter(t, "login", LoginCall(email, password))
    /\ UNCHANGED recordVars

Logout(t) ==
    /\ Enter(t, "logout", LogoutCall(tokenState))
    /\ UNCHANGED recordVars

Fetch(t) ==
    /\ \E path \in Paths :
          Enter(t, "fetch", [path |-> path, method |-> "GET", data |-> None,
                             queryParams |-> None, stream |-> FALSE])
    /\ UNCHANGED recordVars

\* Client.stream up to the hand-over of its request.
Stream(t) ==
    /\ \E path \in Paths :
          Enter(t, "stream", [path |-> path, method |-> "GET", data |-> None,
                              queryParams |-> None, stream |-> TRUE])
    /\ UNCHANGED recordVars

\* Variant: the new state is stored in the client but the request is sent
\* with the local tokenState read at the start of the call.
RefreshAnswer_stale(t) ==
    \E answer \in Answers(RefreshBodies) :
        LET r == refreshTokensImpl(rt[t], answer)
        IN  /\ pc[t] = "refresh"
            /\ rans' = [rans EXCEPT ![t] = Some(answer)]
            /\ UNCHANGED <<now, op, call, rt, tnow, ans, read>>
            /\ UNCHANGED recordVars
            /\ IF r.raised
               THEN /\ Return(t, op[t], tokenState, r, reqs[t])
                    /\ UNCHANGED ts
               ELSE Transport(t, op[t], call[t], ts[t], r.value, reqs[t])

\* Variant: when the refresh fails the request is sent all the same, with
\* the state the call began with.
RefreshAnswer_fallback(t) ==
    \E answer \in Answers(RefreshBodies) :
        LET r == refreshTokensImpl(rt[t], answer)
        IN  /\ pc[t] = "refresh"
            /\ rans' = [rans EXCEPT ![t] = Some(answer)]
            /\ UNCHANGED <<now, op, call, rt, tnow, ans, read>>
            /\ UNCHANGED recordVars
            /\ IF r.raised
               THEN Transport(t, op[t], call[t], ts[t], tokenState, reqs[t])
               ELSE Transport(t, op[t], call[t], r.value, r.value, reqs[t])

\* Variant: the refreshed credentials are written into the state in place,
\* its headers map being left as it was.
RefreshAnswer_torn(t) ==
    \E answer \in Answers(RefreshBodies) :
        LET r == refreshTokensImpl(rt[t], answer)
            torn == TokenState(r.value.state, tokenState.headers)
        IN  /\ pc[t] = "refresh"
            /\ rans' = [rans EXCEPT ![t] = Some(answer)]
            /\ UNCHANGED <<now, op, call, rt, tnow, ans, read>>
            /\ UNCHANGED recordVars
            /\ IF r.raised
               THEN /\ Return(t, op[t], tokenState, r, reqs[t])
                    /\ UNCHANGED ts
               ELSE Transport(t, op[t], call[t], torn, torn, reqs[t])

\* The refresh round trip ends: line 504 / 518 assigns the new state, or the
\* failure leaves Client.fetch / Client.stream.
RefreshAnswer(t) ==
    \E answer \in Answers(RefreshBodies) :
        LET r == refreshTokensImpl(rt[t], answer)
        IN  /\ pc[t] = "refresh"
            /\ rans' = [rans EXCEPT ![t] = Some(answer)]
            /\ UNCHANGED <<now, op, call, rt, tnow, ans, read>>
            /\ UNCHANGED recordVars
            /\ IF r.raised
               THEN /\ Return(t, op[t], tokenState, r, reqs[t])
                    /\ UNCHANGED ts
               ELSE Transport(t, op[t], call[t], r.value, r.value, reqs[t])

\* The round trip of the actual request ends and the call returns.
AnswerCall(t) ==
    \E answer \in AnswersFor(op[t]) :
        /\ pc[t] = "request"
        /\ ans' = [ans EXCEPT ![t] = Some(answer)]
        /\ Return(t, op[t], tokenState, answer, reqs[t])
        /\ UNCHANGED <<now, op, call, ts, rt, tnow, rans, read>>

\* The same for a call that leaves no stream handle behind.
Answer(t) == AnswerCall(t) /\ UNCHANGED recordVars

Tick ==
    /\ now < MaxTime
    /\ now' = now + 1
    /\ UNCHANGED <<tokenState, pc, op, call, ts, rt, tnow, reqs, rans, ans, res, read, hist>>
    /\ UNCHANGED recordVars

\* The session layer alone: one thread, no stream consumed, no record call.
Next ==
    \/ \E t \in SeqThreads : Login(t)
    \/ \E t \in SeqThreads : Logout(t)
    \/ \E t \in SeqThreads : Fetch(t)
    \/ \E t \in SeqThreads : Stream(t)
    \/ \E t \in SeqThreads : SendRefresh(t)
    \/ \E t \in SeqThreads : RefreshAnswer(t)
    \/ \E t \in SeqThreads : Answer(t)
    \/ Tick

Spec == Init /\ [][Next]_vars

sessionVars == <<tokenState, now, pc, op, call, ts, rt, tnow, reqs, rans, ans, res, read, hist>>

\* The one thread of the sequential specifications is between two calls.
Idle == \A t \in SeqThreads : pc[t] = "idle"

\* ---------------------------------------------------------------- streaming
SubscribeIds == {RecordId("r1"), StrId("*")}

\* The arguments RecordApi.subscribe passes to Client.stream.
SubscribeCall(recordId) ==
    [path |-> recordApi \o <<"/", RecordApiName, "/", "subscribe", "/">>
              \o <<IdOf(recordId)>>,
     method |-> "GET", data |-> None, queryParams |-> None, stream |-> TRUE]

\* What response.iter_lines() can bring next to the loop of subscribe: a
\* "data: " line holding JSON, a "data: " line holding something else, the
\* end of the stream, or a read error.  Other lines are skipped by the loop.
Lines == {"data", "baddata", "end", "error"}

NoHandle == cm = "none" /\ gen = "none"

InitSub ==
    /\ tokenState \in InitStates
    /\ now \in {0, MaxTime}
    /\ InitCalls

OpenStream(t) == NoHandle /\ Stream(t)

Subscribe(t) ==
    /\ NoHandle
    /\ \E recordId \in SubscribeIds : Enter(t, "subscribe", SubscribeCall(recordId))
    /\ UNCHANGED recordVars

\* http_client.send(request, stream=True) returns or raises.  When it
\* returns, the connection is open and ThinClient.stream returns impl(), a
\* context manager not yet entered; subscribe wraps it in a generator not
\* yet started.
StreamAnswer(t) ==
    /\ AnswerCall(t)
    /\ IF op[t] \in {"stream", "subscribe"} /\ ~ ans'[t][1].raised
       THEN /\ response' = Some(ans'[t][1].value)
            /\ conn' = "open"
            /\ cm' = "created"
            /\ gen' = IF op[t] = "subscribe" THEN "created" ELSE "none"
       ELSE UNCHANGED streamVars
    /\ UNCHANGED <<batchVars, args>>

\* with handle as response: impl runs up to its yield.
HandleEnter ==
    /\ Idle /\ gen = "none" /\ cm = "created"
    /\ cm' = "entered"
    /\ UNCHANGED <<sessionVars, response, conn, gen, batchVars, args>>

\* The with block is left, at its end, by a break or by an exception: impl
\* resumes and its finally closes the response.
HandleExit ==
    /\ Idle /\ gen = "none" /\ cm = "entered"
    /\ cm' = "exited"
    /\ conn' = "closed"
    /\ UNCHANGED <<sessionVars, response, gen, batchVars, args>>

\* The handle is given up without having been entered: impl was never
\* started, so none of its code runs.
HandleDrop ==
    /\ Idle /\ gen = "none" /\ cm = "created"
    /\ cm' = "dropped"
    /\ UNCHANGED <<sessionVars, response, conn, gen, batchVars, args>>

\* next() on the generator of subscribe: on the first call it enters the
\* context and checks the status; then it reads lines up to the next event.
GenNext ==
    /\ Idle /\ gen \in {"created", "suspended"}
    /\ \E line \in Lines :
          IF gen = "created" /\ response[1].status_code > 200
          THEN gen' = "raised" /\ cm' = "exited" /\ conn' = "closed"
          ELSE CASE line = "data" ->
                      gen' = "suspended" /\ cm' = "entered" /\ UNCHANGED conn
                 [] line = "end" ->
                      gen' = "exhausted" /\ cm' = "exited" /\ conn' = "closed"
                 [] OTHER ->
                      gen' = "raised" /\ cm' = "exited" /\ conn' = "closed"
    /\ UNCHANGED <<sessionVars, response, batchVars, args>>

\* The generator is closed or given up by the consumer.  Suspended at its
\* yield, GeneratorExit leaves the with block and the response is closed;
\* never started, none of its code runs.
GenClose ==
    /\ Idle /\ gen \in {"created", "suspended"}
    /\ gen' = "closed"
    /\ IF gen = "suspended"
       THEN cm' = "exited" /\ conn' = "closed"
       ELSE UNCHANGED <<cm, conn>>
    /\ UNCHANGED <<sessionVars, response, batchVars, args>>

\* One thread that fetches, opens one stream or subscription and consumes it.
NextSub ==
    \/ \E t \in SeqThreads : Fetch(t)
    \/ \E t \in SeqThreads : OpenStream(t)
    \/ \E t \in SeqThreads : Subscribe(t)
    \/ \E t \in SeqThreads : SendRefresh(t)
    \/ \E t \in SeqThreads : RefreshAnswer(t)
    \/ \E t \in SeqThreads : StreamAnswer(t)
    \/ HandleEnter
    \/ HandleExit
    \/ HandleDrop
    \/ GenNext
    \/ GenClose

SpecSub == InitSub /\ [][NextSub]_vars

\* ------------------------------------------------------------- record calls
RecordStates ==
    {build(None).value,
     build(Some(Tokens(Jwt("admin@localhost", RefreshMargin + MaxTime),
                       Some("r1"), Some("c1")))).value}

InitRecord ==
    /\ tokenState \in RecordStates
    /\ now = 0
    /\ InitCalls

\* batch.api(api_name).create(value)
BatchCreate ==
    /\ Idle /\ Len(operations) < MaxOps
    /\ \E api_name \in ApiNames, value \in Values :
          /\ operations' = add_operation(operations, ApiBatch_create(api_name, value))
          /\ added' = Append(added, [kind |-> "Create", api_name |-> api_name,
                                     recordId |-> None, value |-> Some(value)])
    /\ UNCHANGED <<sessionVars, streamVars, args>>

\* batch.api(api_name).update(recordId, value)
BatchUpdate ==
    /\ Idle /\ Len(operations) < MaxOps
    /\ \E api_name \in ApiNames, recordId \in RecordIdArgs, value \in Values :
          /\ operations' = add_operation(operations,
                                         ApiBatch_update(api_name, recordId, value))
          /\ added' = Append(added, [kind |-> "Update", api_name |-> api_name,
                                     recordId |-> Some(recordId), value |-> Some(value)])
    /\ UNCHANGED <<sessionVars, streamVars, args>>

\* batch.api(api_name).delete(recordId)
BatchDelete ==
    /\ Idle /\ Len(operations) < MaxOps
    /\ \E api_name \in ApiNames, recordId \in RecordIdArgs :
          /\ operations' = add_operation(operations, ApiBatch_delete(api_name, recordId))
          /\ added' = Append(added, [kind |-> "Delete", api_name |-> api_name,
                                     recordId |-> Some(recordId), value |-> None])
    /\ UNCHANGED <<sessionVars, streamVars, args>>

\* Variant: the batch is emptied once its operations are handed over.
Send_clearing(t) ==
    /\ Enter(t, "send", SendCall(operations))
    /\ operations' = <<>>
    /\ UNCHANGED <<streamVars, added, args>>

\* batch.send() up to the hand-over of its request.
Send(t) == Enter(t, "send", SendCall(operations)) /\ UNCHANGED recordVars

Create(t) ==
    /\ \E record \in Values :
          Enter(t, "create", [path |-> recordApi \o <<"/", RecordApiName>>,
                              method |-> "POST", data |-> Some(record),
                              queryParams |-> None, stream |-> FALSE])
    /\ UNCHANGED recordVars

CreateBulk(t) ==
    /\ \E record \in Values :
          Enter(t, "create_bulk", [path |-> recordApi \o <<"/", RecordApiName>>,
                                   method |-> "POST", data |-> Some(<<record, record>>),
                                   queryParams |-> None, stream |-> FALSE])
    /\ UNCHANGED recordVars

Update(t) ==
    /\ \E recordId \in RecordIdArgs, record \in Values :
          Enter(t, "update", [path |-> recordApi \o <<"/", RecordApiName, "/", IdOf(recordId)>>,
                              method |-> "PATCH", data |-> Some(record),
                              queryParams |-> None, stream |-> FALSE])
    /\ UNCHANGED recordVars

Delete(t) ==
    /\ \E recordId \in RecordIdArgs :
          Enter(t, "delete", [path |-> recordApi \o <<"/", RecordApiName, "/", IdOf(recordId)>>,
                              method |-> "DELETE", data |-> None,
                              queryParams |-> None, stream |-> FALSE])
    /\ UNCHANGED recordVars

\* One thread that builds a transaction batch, sends it, and makes the
\* mutation calls of a record api.
NextRecord ==
    \/ BatchCreate
    \/ BatchUpdate
    \/ BatchDelete
    \/ \E t \in SeqThreads : Send(t)
    \/ \E t \in SeqThreads : Create(t)
    \/ \E t \in SeqThreads : CreateBulk(t)
    \/ \E t \in SeqThreads : Update(t)
    \/ \E t \in SeqThreads : Delete(t)
    \/ \E t \in SeqThreads : Answer(t)

SpecRecord == InitRecord /\ [][NextRecord]_vars

\* ------------------------------------------------------------------ listing
List(t) ==
    /\ \E a \in ListInputs :
          /\ Enter(t, "list", ListCall(a))
          /\ args' = Some(a)
    /\ UNCHANGED <<streamVars, batchVars>>

NextList ==
    \/ \E t \in SeqThreads : List(t)
    \/ \E t \in SeqThreads : Answer(t)

SpecList == InitRecord /\ [][NextList]_vars

\* --------------------------------------------------- two interleaved calls
\* The states whose token is due for a refresh at time MaxTime.
RaceStates == {s \in InitStates : shouldRefresh(s, MaxTime) # None}

InitRace ==
    /\ tokenState \in RaceStates
    /\ now = MaxTime
    /\ InitCalls

\* Each thread makes one call: thread 1 a fetch, thread 2 a stream.
Dispatch(t) ==
    /\ op[t] = "none"
    /\ Enter(t, IF t = 1 THEN "fetch" ELSE "stream",
             [path |-> recordApi \o <<"/", RecordApiName>>, method |-> "GET",
              data |-> None, queryParams |-> None, stream |-> t # 1])
    /\ UNCHANGED recordVars

\* Two threads on one client; a thread can be preempted at each round trip
\* and between its decision to refresh and the refresh request.
NextRace ==
    \/ \E t \in Threads : Dispatch(t)
    \/ \E t \in Threads : SendRefresh(t)
    \/ \E t \in Threads : RefreshAnswer(t)
    \/ \E t \in Threads : Answer(t)

SpecRace == InitRace /\ [][NextRace]_vars

\* ------------------------------------------- a call interleaved with logout
\* Thread 1 makes one fetch, thread 2 one logout, on a client whose token is
\* due for a refresh.
LogoutOnce(t) == op[t] = "none" /\ Logout(t)

NextLogoutRace ==
    \/ \E t \in {1} : Dispatch(t)
    \/ \E t \in {2} : LogoutOnce(t)
    \/ \E t \in Threads : SendRefresh(t)
    \/ \E t \in Threads : RefreshAnswer(t)
    \/ \E t \in Threads : Answer(t)

SpecLogoutRace == InitRace /\ [][NextLogoutRace]_vars


\* ================================================================== claims
Completed(t) == pc[t] = "idle" /\ op[t] # "none"

\* The headers the specification derives from optional tokens tk.
HeadersAsDerived(h, tk) ==
    /\ DOMAIN h \subseteq {"Content-Type", "Authorization", "Refresh-Token", "CSRF-Token"}
    /\ "Content-Type" \in DOMAIN h /\ h["Content-Type"] = "application/json"
    /\ ("Authorization" \in DOMAIN h) <=> (tk # None)
    /\ tk # None => h["Authorization"] = <<"Bearer", tk[1].auth>>
    /\ ("Refresh-Token" \in DOMAIN h) <=> (tk # None /\ tk[1].refresh # None)
    /\ "Refresh-Token" \in DOMAIN h => h["Refresh-Token"] = tk[1].refresh[1]
    /\ ("CSRF-Token" \in DOMAIN h) <=> (tk # None /\ tk[1].csrf # None)
    /\ "CSRF-Token" \in DOMAIN h => h["CSRF-Token"] = tk[1].csrf[1]

\* C1 (as stated): the refresh token is returned iff credentials are present
\* and expiresAt - 60 <= now, absent otherwise.
C1_ShouldRefreshInclusive ==
    \A t \in Threads :
        op[t] # "none" =>
            rt[t] = IF read[t].state # None
                       /\ read[t].state[1].claims.exp - 60 <= tnow[t]
                    THEN read[t].state[1].tokens.refresh
                    ELSE None

\* C1 (amended): _shouldRefresh returns the refresh token of the state iff
\* credentials are present and expiresAt - 60 < now (strictly), and absent
\* otherwise, in particular when expiresAt - 60 equals now.
C1_ShouldRefreshStrict ==
    \A t \in Threads :
        op[t] # "none" =>
            rt[t] = IF read[t].state # None
                       /\ read[t].state[1].claims.exp - 60 < tnow[t]
                    THEN read[t].state[1].tokens.refresh
                    ELSE None

C1_Witness ==
    \E t \in Threads :
        /\ op[t] # "none"
        /\ read[t].state # None
        /\ read[t].state[1].claims.exp - 60 < tnow[t]
        /\ rt[t] # None
        /\ rt[t] = read[t].state[1].tokens.refresh

\* C2: whenever logout() has returned, it has not raised and the session
\* state is cleared: no tokens, headers reduced to Content-Type.
C2_LogoutClears ==
    \A t \in Threads :
        (Completed(t) /\ op[t] = "logout") =>
            /\ ~ res[t].raised
            /\ tokenState.state = None
            /\ tokens(tokenState) = None
            /\ tokenState.headers = ("Content-Type" :> "application/json")

\* a logout from an authenticated state whose inner refresh failed at the
\* network level
C2_Witness ==
    \E t \in Threads :
        /\ Completed(t) /\ op[t] = "logout"
        /\ read[t].state # None
        /\ rans[t] = Some(Raise("TransportError"))
        /\ tokenState.state = None


\* C3: after two logout() calls in a row, neither has raised and
\* currentTokens() was absent after the first and is absent after the second.
C3_LogoutTwice ==
    \A t \in Threads :
        (pc[t] = "idle" /\ Len(hist[t]) = 2
            /\ hist[t][1].op = "logout" /\ hist[t][2].op = "logout") =>
            /\ ~ hist[t][2].raised /\ hist[t][2].anonymous
            /\ ~ hist[t][1].raised /\ hist[t][1].anonymous
            /\ ~ res[t].raised
            /\ tokens(tokenState) = None

\* two logouts in a row, the second one failing at the network level
C3_Witness ==
    \E t \in Threads :
        /\ pc[t] = "idle" /\ Len(hist[t]) = 2
        /\ hist[t][1].op = "logout" /\ hist[t][2].op = "logout"
        /\ read[t].state = None
        /\ ans[t] = Some(Raise("TransportError"))

\* The refresh of the call of thread t was attempted and failed.
RefreshFailed(t) ==
    /\ rans[t] # None
    /\ \/ rans[t][1].raised
       \/ ~ rans[t][1].value.body.json
       \/ ~ ({"auth_token", "csrf_token"} \subseteq DOMAIN rans[t][1].value.body.obj)
       \/ rans[t][1].value.body.obj.auth_token \in BadJwts

\* The tokens a successful refresh of the call of thread t yields.
RefreshedTokens(t) ==
    Tokens(rans[t][1].value.body.obj.auth_token,
           read[t].state[1].tokens.refresh,
           rans[t][1].value.body.obj.csrf_token)

\* C4 (as stated): after a failed login, and after a dispatch whose refresh
\* failed, the session state is identical to the state before the call.
C4_FailureLeavesPriorState ==
    \A t \in Threads :
        (Completed(t)
            /\ \/ op[t] = "login" /\ res[t].raised
               \/ op[t] \in {"fetch", "stream"} /\ RefreshFailed(t)) =>
            tokenState = read[t]

\* C4 (amended): a failed refresh leaves the session state identical to the
\* state before the call; a failed login leaves it identical to the state
\* before the call unless the pre-emptive refresh inside login succeeded, in
\* which case it is the state that refresh installed.
C4_FailureLeavesDispatchState ==
    \A t \in Threads :
        /\ (Completed(t) /\ op[t] \in {"login", "fetch", "stream"} /\ RefreshFailed(t)) =>
              (res[t].raised /\ tokenState = read[t])
        /\ (Completed(t) /\ op[t] = "login" /\ res[t].raised) =>
              IF rans[t] = None \/ RefreshFailed(t)
              THEN tokenState = read[t]
              ELSE tokens(tokenState) = Some(RefreshedTokens(t))

\* a login that failed after its pre-emptive refresh had renewed the state
C4_Witness ==
    \E t \in Threads :
        /\ Completed(t) /\ op[t] = "login" /\ res[t].raised
        /\ rans[t] # None /\ ~ RefreshFailed(t)
        /\ tokenState # read[t]

\* C5: after a successful login the session state is the one built from the
\* triple of the response: currentTokens() is the triple, currentUser() has
\* the subject and email of the token's claims, the headers are derived from
\* the triple.
C5_LoginInstallsTriple ==
    \A t \in Threads :
        (Completed(t) /\ op[t] = "login" /\ ~ res[t].raised) =>
            LET obj == ans[t][1].value.body.obj
                triple == Tokens(obj.auth_token, obj.refresh_token, obj.csrf_token)
            IN  /\ res[t].value = Some(triple)
                /\ tokens(tokenState) = Some(triple)
                /\ user(tokenState) = Ok(Some([id |-> triple.auth.payload.sub,
                                               email |-> triple.auth.payload.email]))
                /\ tokenState.state[1].claims.exp = triple.auth.payload.exp
                /\ HeadersAsDerived(tokenState.headers, Some(triple))

\* a successful login over an authenticated state with other tokens
C5_Witness ==
    \E t \in Threads :
        /\ Completed(t) /\ op[t] = "login" /\ ~ res[t].raised
        /\ read[t].state # None
        /\ tokens(read[t]) # tokens(tokenState)
        /\ tokens(tokenState)[1].csrf = None

\* C6: a login answered with a non-2xx status has raised and has installed
\* no tokens from the response body.
C6_LoginChecksStatus ==
    \A t \in Threads :
        (Completed(t) /\ op[t] = "login" /\ ans[t] # None /\ ~ ans[t][1].raised
            /\ ans[t][1].value.status_code \notin 200..299) =>
            /\ res[t].raised
            /\ tokenState = ts[t]

\* C7: the stored headers are exactly the headers derived from the stored
\* tokens.
C7_HeadersDerived == HeadersAsDerived(tokenState.headers, tokens(tokenState))

\* a state installed by a refresh inside a stream call, without csrf token
C7_Witness ==
    \E t \in Threads :
        /\ Completed(t) /\ op[t] = "stream"
        /\ rans[t] # None /\ ~ RefreshFailed(t)
        /\ tokenState # read[t]
        /\ tokens(tokenState) # None
        /\ tokens(tokenState)[1].csrf = None
        /\ tokens(tokenState)[1].refresh # None

\* C8: when the client is updated to tokens whose auth token cannot be
\* decoded, nothing is raised and the state has credentials absent and the
\* headers derived from the raw tokens.
C8_UndecodableTokensAccepted ==
    \A t \in Threads :
        (Completed(t) /\ op[t] = "login" /\ ans[t] # None /\ ~ ans[t][1].raised
            /\ ans[t][1].value.body.json
            /\ {"auth_token", "refresh_token", "csrf_token"}
                   \subseteq DOMAIN ans[t][1].value.body.obj
            /\ ans[t][1].value.body.obj.auth_token \in BadJwts) =>
            LET obj == ans[t][1].value.body.obj
                triple == Tokens(obj.auth_token, obj.refresh_token, obj.csrf_token)
            IN  /\ ~ res[t].raised
                /\ tokenState.state = None
                /\ HeadersAsDerived(tokenState.headers, Some(triple))


\* A login of thread t completes in this step.
LoginCompletes(t) == op[t] = "login" /\ pc[t] # "idle" /\ pc'[t] = "idle"

\* C9: a step that replaces an authenticated session state by another one,
\* other than the completion of a login, is the answer to a refresh request;
\* the new tokens are the auth and csrf tokens of that answer together with
\* the refresh token that was sent, which is the one held before: the refresh
\* token of the session changes only on login and logout.
C9_RefreshKeepsRefreshToken ==
    [][\A t \in Threads :
          (tokens(tokenState) # None /\ tokens(tokenState') # None
              /\ pc'[t] # pc[t] /\ ~ LoginCompletes(t)) =>
              /\ tokens(tokenState')[1].refresh = tokens(tokenState)[1].refresh
              /\ tokenState' # tokenState =>
                    /\ pc[t] = "refresh" /\ rans'[t] # None /\ ~ rans'[t][1].raised
                    /\ reqs[t][1].json = Some([refresh_token |-> tokens(tokenState)[1].refresh[1]])
                    /\ tokens(tokenState') =
                         Some(Tokens(rans'[t][1].value.body.obj.auth_token,
                                     Some(reqs[t][1].json[1].refresh_token),
                                     rans'[t][1].value.body.obj.csrf_token))]_vars

\* a refresh whose answer carried another refresh token than the one held
C9_Witness ==
    \E t \in Threads :
        /\ pc[t] = "request" /\ rans[t] # None /\ ~ rans[t][1].raised
        /\ rans[t][1].value.body.json
        /\ "refresh_token" \in DOMAIN rans[t][1].value.body.obj
        /\ rans[t][1].value.body.obj.refresh_token # rt[t]
        /\ tokenState # read[t]
        /\ tokens(tokenState)[1].refresh = rt[t]
        /\ tokens(tokenState)[1].auth = rans[t][1].value.body.obj.auth_token

\* request r carries every header of h with its value
Carries(r, h) == \A k \in DOMAIN h : k \in DOMAIN r.headers /\ r.headers[k] = h[k]

\* C10: while the actual request of a call is in flight: if shouldRefresh
\* yielded a token for the state read, the refresh request went out first,
\* its answer has arrived, the session state has been replaced by the state
\* built from that answer, and the actual request carries the headers of the
\* new state; if it yielded absent, the actual request is the only request,
\* carries the headers of the state read, and the session state is unchanged.
C10_RefreshBeforeRequest ==
    \A t \in Threads :
        pc[t] = "request" =>
            LET r == reqs[t][Len(reqs[t])]
            IN  /\ r.url = Url(call[t].path)
                /\ Carries(r, tokenState.headers)
                /\ ~ call[t].stream => r.headers = tokenState.headers
                /\ IF rt[t] # None
                   THEN /\ Len(reqs[t]) = 2
                        /\ reqs[t][1].url = Url(authApi \o <<"/", "refresh">>)
                        /\ rans[t] # None /\ ~ RefreshFailed(t)
                        /\ tokens(tokenState) = Some(RefreshedTokens(t))
                   ELSE /\ Len(reqs[t]) = 1
                        /\ rans[t] = None
                        /\ tokenState = read[t]

\* a stream request in flight after a refresh that changed the headers
C10_Witness ==
    \E t \in Threads :
        /\ pc[t] = "request" /\ op[t] = "stream" /\ rt[t] # None
        /\ Len(reqs[t]) = 2
        /\ tokenState.headers # read[t].headers
        /\ Carries(reqs[t][2], tokenState.headers)

\* ---------------------------------------------------------------------- C11
Anonymous(g) == g.state = None
Authenticated(g) == g.state # None

\* The step in which a login call returns tokens to its caller.
LoginSucceeds(t) == LoginCompletes(t) /\ ~ res'[t].raised

\* The step in which the refresh round trip of a call ends with a new state.
RefreshSucceeds(t) ==
    /\ pc[t] = "refresh"
    /\ pc'[t] # "refresh"
    /\ rans'[t] # None
    /\ ~ refreshTokensImpl(rt[t], rans'[t][1]).raised

\* The step in which a logout call returns to its caller.
LogoutCompletes(t) == op[t] = "logout" /\ pc[t] # "idle" /\ pc'[t] = "idle"

\* The step in which a call hands its refresh request to httpx.
IssuesRefresh(t) == pc[t] = "decided" /\ pc'[t] = "refresh"

\* C11 as stated: the session state changes only from Anonymous to
\* Authenticated on a successful login, from Authenticated to Authenticated on
\* a refresh, and from Authenticated to Anonymous on logout; an Anonymous
\* session issues no refresh request.
C11_OnlyListedTransitions ==
    [][/\ tokenState' # tokenState =>
            \E t \in Threads :
                \/ Anonymous(tokenState) /\ Authenticated(tokenState')
                                         /\ LoginSucceeds(t)
                \/ Authenticated(tokenState) /\ Authenticated(tokenState')
                                             /\ RefreshSucceeds(t)
                \/ Authenticated(tokenState) /\ Anonymous(tokenState')
                                             /\ LogoutCompletes(t)
       /\ \A t \in Threads : IssuesRefresh(t) => Authenticated(tokenState)]_vars

\* C11, amended: besides the three listed transitions, a successful login on
\* an Authenticated session replaces its tokens (Authenticated to
\* Authenticated); no other step changes the session state, and an Anonymous
\* session issues no refresh request.
C11_Transitions ==
    [][/\ tokenState' # tokenState =>
            \E t \in Threads :
                \/ Anonymous(tokenState) /\ Authenticated(tokenState')
                                         /\ LoginSucceeds(t)
                \/ Authenticated(tokenState) /\ Authenticated(tokenState')
                                             /\ LoginSucceeds(t)
                \/ Authenticated(tokenState) /\ Authenticated(tokenState')
                                             /\ RefreshSucceeds(t)
                \/ Authenticated(tokenState) /\ Anonymous(tokenState')
                                             /\ LogoutCompletes(t)
       /\ \A t \in Threads : IssuesRefresh(t) => Authenticated(tokenState)]_vars

\* A login on an authenticated client, without a refresh, has returned tokens
\* and they differ from the ones the client held when the call began.
C11_Witness ==
    \E t \in Threads :
        /\ Completed(t)
        /\ op[t] = "login"
        /\ ~ res[t].raised
        /\ rt[t] = None
        /\ Authenticated(read[t])
        /\ Authenticated(tokenState)
        /\ tokenState # read[t]

\* ---------------------------------------------------------------------- C14
Rooted(path) == Len(path) > 0 /\ path[1] = "/"

\* The requests of thread t's call that are not its refresh request.
ActualRequests(t) ==
    {i \in 1..Len(reqs[t]) : reqs[t][i].url # Site \o <<"/">> \o authApi \o <<"/", "refresh">>}

\* C14: a call whose path begins with '/' never has a request of its own in
\* flight or answered, and it ends in an AssertionError unless its refresh
\* failed first; a call whose path does not begin with '/' sends its request
\* to '<site>/<path>'.
C14_RootedPathRejected ==
    \A t \in Threads :
        op[t] # "none" =>
            IF Rooted(call[t].path)
            THEN /\ pc[t] # "request"
                 /\ ans[t] = None
                 /\ ActualRequests(t) = {}
                 /\ (Completed(t) /\ ~ RefreshFailed(t))
                        => res[t] = Raise("AssertionError")
            ELSE /\ pc[t] = "request" => ActualRequests(t) # {}
                 /\ \A i \in ActualRequests(t) :
                        reqs[t][i].url = Site \o <<"/">> \o call[t].path

\* A stream call with a rooted path has refreshed the tokens and then failed
\* with the assertion, its only request being the refresh.
C14_Witness ==
    \E t \in Threads :
        /\ Completed(t)
        /\ op[t] = "stream"
        /\ Rooted(call[t].path)
        /\ rans[t] # None
        /\ ~ RefreshFailed(t)
        /\ Len(reqs[t]) = 1
        /\ res[t] = Raise("AssertionError")

\* ---------------------------------------------------------------------- C18
IsRefreshRequest(r) == r.url = Site \o <<"/">> \o authApi \o <<"/", "refresh">>

\* C18: a call hands at most two requests to httpx, a refresh request only
\* in first place and at most one request of its own after it; when the
\* refresh fails the call is over with the refresh request as its only
\* request, and fetch, stream and login end in that failure (the very
\* transport error when the round trip failed).
C18_NoRetry ==
    \A t \in Threads :
        /\ Len(reqs[t]) <= 2
        /\ \A i \in 1..Len(reqs[t]) : IsRefreshRequest(reqs[t][i]) => i = 1
        /\ Cardinality(ActualRequests(t)) <= 1
        /\ RefreshFailed(t) =>
              /\ pc[t] = "idle"
              /\ ans[t] = None
              /\ Len(reqs[t]) = 1
              /\ IsRefreshRequest(reqs[t][1])
              /\ op[t] \in {"fetch", "stream", "login"} =>
                    /\ res[t].raised
                    /\ rans[t][1].raised => res[t] = rans[t][1]
                    /\ ~ rans[t][1].raised =>
                          res[t].error \in {"JSONDecodeError", "KeyError", "DecodeError"}

\* A stream call has ended in the transport error of its refresh round trip,
\* with the refresh request as the only request it sent.
C18_Witness ==
    \E t \in Threads :
        /\ Completed(t)
        /\ op[t] = "stream"
        /\ rans[t] # None
        /\ rans[t][1].raised
        /\ res[t] = rans[t][1]
        /\ Len(reqs[t]) = 1
        /\ IsRefreshRequest(reqs[t][1])
        /\ ans[t] = None

\* ---------------------------------------------------------------------- C20
\* The refresh token of the state thread t's call read at its start.
ReadRefreshToken(t) ==
    IF read[t].state # None THEN read[t].state[1].tokens.refresh ELSE None

\* r is the logout request the state read at the start of the call asks for.
IsLogoutRequestOf(r, t) ==
    /\ r.url = Site \o <<"/">> \o authApi \o <<"/", "logout">>
    /\ IF ReadRefreshToken(t) # None
       THEN r.method = "POST" /\ r.json = Some([refresh_token |-> ReadRefreshToken(t)[1]])
       ELSE r.method = "GET" /\ r.json = None

\* C20 as stated: every logout sends the logout request, carrying the refresh
\* token of the state read at its start, or bare when that state has none.
C20_LogoutAlwaysSends ==
    \A t \in Threads :
        (Completed(t) /\ op[t] = "logout") =>
            \E i \in 1..Len(reqs[t]) : IsLogoutRequestOf(reqs[t][i], t)

\* C20, amended: a logout whose pre-emptive refresh failed sends no logout
\* request; every other logout sends exactly one, carrying the refresh token
\* of the state read at its start, or bare (GET, no body) when that state has
\* none.
C20_LogoutRequest ==
    \A t \in Threads :
        op[t] = "logout" =>
            /\ \A i \in ActualRequests(t) : IsLogoutRequestOf(reqs[t][i], t)
            /\ RefreshFailed(t) => ActualRequests(t) = {}
            /\ (pc[t] = "request" \/ (Completed(t) /\ ~ RefreshFailed(t)))
                   => Cardinality(ActualRequests(t)) = 1

\* A logout has refreshed the tokens and then sent the refresh token it read
\* at its start in the body of a POST.
C20_Witness ==
    \E t \in Threads :
        /\ Completed(t)
        /\ op[t] = "logout"
        /\ ReadRefreshToken(t) # None
        /\ rans[t] # None
        /\ Len(reqs[t]) = 2
        /\ reqs[t][2].method = "POST"
        /\ reqs[t][2].json = Some([refresh_token |-> ReadRefreshToken(t)[1]])

\* ---------------------------------------------------------------------- C12
\* g is one snapshot: its claims are those of its own access token and its
\* headers those of its own tokens.
SnapshotComplete(g) ==
    IF g.state = None
    THEN HeadersAsDerived(g.headers, None)
    ELSE LET tk == g.state[1].tokens
             cl == g.state[1].claims
         IN  /\ tk.auth.segments = 3
             /\ cl.sub = tk.auth.payload.sub
             /\ cl.exp = tk.auth.payload.exp
             /\ cl.email = tk.auth.payload.email
             /\ HeadersAsDerived(g.headers, Some(tk))

RefreshOk(t) == rans[t] # None /\ ~ RefreshFailed(t)

\* The token sets a request of the two calls can stem from: the ones a call
\* read at its start and the ones a refresh has produced.
TokenSets ==
    {tokens(read[u]) : u \in {v \in Threads : op[v] # "none"}}
    \cup {Some(RefreshedTokens(u)) : u \in {v \in Threads : RefreshOk(v)}}

\* The headers of a request without those ThinClient.stream adds.
SessionHeaders(r) ==
    [k \in DOMAIN r.headers \ {"Accept", "Cache-Control"} |-> r.headers[k]]

\* C12: with two interleaved calls the client's state and each call's local
\* state are always one complete snapshot, every request carries the headers
\* of one token set (read at the start of a call or produced by one refresh),
\* and once both calls that decided to refresh are over the state holds the
\* result of one of the refreshes that succeeded (the initial tokens when
\* none did).
C12_BenignRace ==
    /\ SnapshotComplete(tokenState)
    /\ \A t \in Threads :
          /\ SnapshotComplete(ts[t])
          /\ \A i \in 1..Len(reqs[t]) :
                \E tk \in TokenSets : HeadersAsDerived(SessionHeaders(reqs[t][i]), tk)
    /\ (\A t \in Threads : Completed(t) /\ rt[t] # None) =>
          tokens(tokenState) \in
              IF \E u \in Threads : RefreshOk(u)
              THEN {Some(RefreshedTokens(u)) : u \in {v \in Threads : RefreshOk(v)}}
              ELSE {tokens(read[u]) : u \in Threads}

\* Both calls read the same expiring state, both refreshed with different
\* results, both are over, and the state holds the result of thread 1 while
\* thread 2 sent its request with its own.
C12_Witness ==
    /\ \A t \in Threads : Completed(t) /\ RefreshOk(t) /\ ans[t] # None
    /\ read[1] = read[2]
    /\ RefreshedTokens(1) # RefreshedTokens(2)
    /\ tokens(tokenState) = Some(RefreshedTokens(1))
    /\ tokens(ts[2]) = Some(RefreshedTokens(2))

\* ---------------------------------------------------------------------- C13
\* C13: once the handle of openStream or the generator of subscribe is done
\* with (left, exhausted, failed, closed or dropped, entered or not), the
\* connection is closed.
C13_ConnectionReleased ==
    (cm \in {"exited", "dropped"} \/ gen \in {"exhausted", "raised", "closed"})
        => conn = "closed"

\* ---------------------------------------------------------------------- C19
StreamHeaders == {"Accept", "Cache-Control"}

\* C19: a stream request carries the headers of the state its call used plus
\* Accept: text/event-stream and Cache-Control: no-store; the headers of the
\* client's state, and so every request that is not a stream request, carry
\* neither of the two.
C19_StreamHeadersCopied ==
    /\ StreamHeaders \cap DOMAIN tokenState.headers = {}
    /\ \A t \in Threads :
          \A i \in 1..Len(reqs[t]) :
              LET r == reqs[t][i]
              IN  IF r.stream
                  THEN /\ DOMAIN r.headers = DOMAIN ts[t].headers \cup StreamHeaders
                       /\ StreamHeaders \cap DOMAIN ts[t].headers = {}
                       /\ r.headers["Accept"] = "text/event-stream"
                       /\ r.headers["Cache-Control"] = "no-store"
                       /\ \A k \in DOMAIN ts[t].headers : r.headers[k] = ts[t].headers[k]
                  ELSE StreamHeaders \cap DOMAIN r.headers = {}

\* A stream call has returned its handle and a later fetch of the same
\* authenticated client is in flight with the session headers only.
C19_Witness ==
    /\ cm # "none"
    /\ gen = "none"
    /\ \E t \in Threads :
          /\ op[t] = "fetch"
          /\ pc[t] = "request"
          /\ Authenticated(read[t])
          /\ DOMAIN reqs[t][Len(reqs[t])].headers = DOMAIN tokenState.headers
          /\ "Authorization" \in DOMAIN reqs[t][Len(reqs[t])].headers

\* ---------------------------------------------------------------------- C15
\* The keys a filter is to be flattened into under path: path[col][$op] for
\* a leaf (path[col] without an operator), and the keys of the i-th child of
\* an And / Or node under path[$and][i] / path[$or][i].
RECURSIVE BalancedKeys(_, _)
BalancedKeys(path, filter) ==
    CASE filter.kind = "Filter" ->
            IF filter.op = None
            THEN {path \o <<"[", filter.column, "]">>}
            ELSE {path \o <<"[", filter.column, "]", "[",
                            IF filter.op = Some("EQUAL") THEN "$eq" ELSE repr(filter.op[1]),
                            "]">>}
      [] filter.kind = "And" ->
            UNION {BalancedKeys(path \o <<"[", "$and", "]", "[", str(i - 1), "]">>,
                                filter.filters[i]) : i \in 1..Len(filter.filters)}
      [] filter.kind = "Or" ->
            UNION {BalancedKeys(path \o <<"[", "$or", "]", "[", str(i - 1), "]">>,
                                filter.filters[i]) : i \in 1..Len(filter.filters)}

\* The keys of the query parameters of a request that begin with "filter".
FilterKeys(r) ==
    {r.params[1][i][1] : i \in {j \in 1..Len(r.params[1]) : r.params[1][j][1][1] = "filter"}}

\* C15: the filter keys of the request of a list call are those of its
\* filters, written with balanced brackets.
C15_FilterKeysBalanced ==
    \A t \in Threads :
        (op[t] = "list" /\ pc[t] = "request" /\ args # None /\ args[1].filters # None) =>
            FilterKeys(reqs[t][Len(reqs[t])]) =
                UNION {BalancedKeys(<<"filter">>, args[1].filters[1][i]) :
                          i \in 1..Len(args[1].filters[1])}

\* ---------------------------------------------------------------------- C16
\* The tagged value a call made on the batch stands for.
TaggedOperation(a) ==
    LET id == IF a.recordId = None THEN ""
              ELSE IF a.recordId[1].type = "int" THEN str(a.recordId[1].n)
              ELSE a.recordId[1].id
    IN  CASE a.kind = "Create" ->
                [Create |-> [api_name |-> a.api_name, value |-> a.value[1]]]
          [] a.kind = "Update" ->
                [Update |-> [api_name |-> a.api_name, record_id |-> id,
                             value |-> a.value[1]]]
          [] a.kind = "Delete" ->
                [Delete |-> [api_name |-> a.api_name, record_id |-> id]]

\* C16: a send has exactly one request, a POST to api/transaction/v1/execute
\* whose operations are the calls made on the batch, each as its tagged
\* value, in the order the calls were made; answered 200 with a list of ids
\* it returns those ids in the order of the response.
C16_SendInOrder ==
    \A t \in Threads :
        (op[t] = "send" /\ pc[t] = "request") =>
            /\ Len(reqs[t]) = 1
            /\ reqs[t][1].method = "POST"
            /\ reqs[t][1].url = Site \o <<"/", "api", "/", "transaction", "/", "v1",
                                          "/", "execute">>
            /\ reqs[t][1].json =
                   Some([operations |-> [k \in 1..Len(added) |-> TaggedOperation(added[k])]])

\* The same once the send is over: still one request, and the result.
C16_SendReturnsIds ==
    \A t \in Threads :
        (op[t] = "send" /\ Completed(t)) =>
            /\ Len(reqs[t]) = 1
            /\ LET a == ans[t][1]
               IN  (~ a.raised /\ a.value.status_code = 200 /\ a.value.body.json
                      /\ "ids" \in DOMAIN a.value.body.obj) =>
                       /\ ~ res[t].raised
                       /\ Len(res[t].value) = Len(a.value.body.obj.ids)
                       /\ \A i \in 1..Len(res[t].value) :
                              res[t].value[i].id = a.value.body.obj.ids[i]

MutationOps == {"create", "create_bulk", "update", "delete", "send"}

\* C17: a mutation call or a transaction send whose request was answered
\* with a well-formed body raises exactly when the status is outside
\* 200..299.
C17_RaisesIffNon2xx ==
    \A t \in Threads :
        (/\ Completed(t)
         /\ op[t] \in MutationOps
         /\ ans[t] # None
         /\ ~ ans[t][1].raised
         /\ ans[t][1].value.body = IdsBody(<<"id2", "id1">>)) =>
            (res[t].raised <=> ans[t][1].value.status_code \notin 200..299)

\* ---------------------------------------------------------------------- C21
\* C21: once the logout of thread 2 has returned (no login follows in this
\* specification), the session is Anonymous, whatever the fetch of thread 1
\* that began before it still does.
C21_LogoutIsFinal ==
    (Completed(2) /\ op[2] = "logout") => Anonymous(tokenState)

\* ---------------------------------------------------------------------- C22
\* C22: a fetch or stream call with a path that begins with '/' has handed
\* no request at all to httpx, and when it is over the session state is the
\* one the call found.
C22_RootedPathNoSideEffect ==
    \A t \in SeqThreads :
        (op[t] \in {"fetch", "stream"} /\ Rooted(call[t].path)) =>
            /\ reqs[t] = <<>>
            /\ Completed(t) => tokenState = read[t]

\* ---------------------------------------------------------------------- C23
\* The number of leaf filters of a filter tree.
RECURSIVE LeafCount(_)
LeafCount(filter) ==
    IF filter.kind = "Filter" THEN 1
    ELSE LET RECURSIVE Sum(_)
             Sum(i) == IF i > Len(filter.filters) THEN 0
                       ELSE LeafCount(filter.filters[i]) + Sum(i + 1)
         IN  Sum(1)

\* The number of query parameters of a request whose key begins with "filter".
FilterParamCount(r) ==
    Cardinality({j \in 1..Len(r.params[1]) : r.params[1][j][1][1] = "filter"})

\* C23: the request of a list call has as many filter parameters as its
\* filter list has leaf filters.
C23_EveryLeafSent ==
    \A t \in Threads :
        (op[t] = "list" /\ pc[t] = "request" /\ args # None /\ args[1].filters # None) =>
            FilterParamCount(reqs[t][Len(reqs[t])]) =
                LET f == args[1].filters[1]
                    RECURSIVE Total(_)
                    Total(i) == IF i > Len(f) THEN 0 ELSE LeafCount(f[i]) + Total(i + 1)
                IN  Total(1)

\* ---------------------------------------------------------------------- C24
\* A step of a send call of thread t: its start or its return.
SendStep(t) ==
    \/ pc[t] = "idle" /\ pc'[t] # "idle" /\ op'[t] = "send"
    \/ pc[t] # "idle" /\ pc'[t] = "idle" /\ op[t] = "send"

\* C24: no step of a send changes the operation list of the batch, whether
\* the send succeeds or fails; every send that starts submits the whole list
\* as it is then; and the only change the list ever sees is one operation
\* appended after those it holds, sent or not.
C24_SendKeepsOperations ==
    [][/\ \A t \in Threads :
             /\ SendStep(t) => operations' = operations
             /\ (SendStep(t) /\ pc'[t] = "request") =>
                    reqs'[t][Len(reqs'[t])].json = Some([operations |-> operations])
       /\ operations' # operations =>
             /\ Len(operations') = Len(operations) + 1
             /\ SubSeq(operations', 1, Len(operations)) = operations]_vars

\* A second send is in flight after a first one failed: it submits the same
\* two operations, which the batch still holds.
C24_Witness ==
    \E t \in Threads :
        /\ op[t] = "send"
        /\ pc[t] = "request"
        /\ Len(hist[t]) > 0
        /\ hist[t][1].op = "send"
        /\ hist[t][1].raised
        /\ Len(operations) = 2
        /\ reqs[t][1].json = Some([operations |-> operations])

====
